---- MODULE Spec2Model ----
(***************************************************************************)
(* Model of the OptiCode backend (src/main.py): the startup routine        *)
(* `lifespan`, which fills the three module-level handles, and the         *)
(* `/analyze` endpoint `analyze_code`, which scores the code, builds the   *)
(* prompt, routes to one provider and shapes the response.                 *)
(*                                                                         *)
(* `analyze_code` is an `async def` without a single `await`: its body,    *)
(* the synchronous provider call included, runs on the server's one event  *)
(* loop thread.  The variable `loop` holds the request whose handler       *)
(* occupies that thread.                                                   *)
(***************************************************************************)
EXTENDS Integers, Sequences, FiniteSets, TLC

(* ------------------------------ bounds --------------------------------- *)
NumRequests == 2
Requests == 1..NumRequests

(* ------------------------- values of the model ------------------------- *)
None == "None"
Absent == "<absent>"          \* a JSON field that is not in the body
NoLoop == 0                   \* the event loop thread is idle

ScanLimit == 512              \* payload.code[:512]
StatusUnavailable == 503      \* HTTPException(status_code=503, ...)
StatusOK == 200               \* a returned dict is sent with status 200

Codes == {"", "x=1"}
ModelFields == {Absent, "groq", "llama"}
Keys == {None, "", "k"}       \* os.getenv: unset, set to empty, set
ScorerOutcomes == {"LABEL_1", "LABEL_0", "no_label", "throws"}
ProviderOutcomes == {"text", "no_text_field", "throws"}

NoExc == [cls |-> "none", status_code |-> 0, detail |-> ""]
NoPayload == [code |-> Absent, model |-> Absent]
NoResponse == [http |-> 0, security_score |-> Absent, analysis |-> Absent,
               detail |-> Absent]

VARIABLES
  genai, Groq, pipeline,      \* the optional imports: "module" or None
  GEMINI_API_KEY, GROQ_API_KEY,
  security_scanner, gemini_client, groq_client,
  lifespan_pc,                \* position of lifespan
  ctor_threw,                 \* which client constructors threw at startup
  payload, stage, status, prompt, called, scanned, completion, response,
  loop

envVars == <<genai, Groq, pipeline, GEMINI_API_KEY, GROQ_API_KEY>>
handles == <<security_scanner, gemini_client, groq_client>>
startVars == <<lifespan_pc, ctor_threw>>
reqVars == <<payload, stage, status, prompt, called, scanned, completion,
            response, loop>>
vars == <<envVars, handles, startVars, reqVars>>

(* ------------------------------ helpers -------------------------------- *)
\* Python truthiness of an os.getenv result
Truthy(s) == s # None /\ s # ""

Min(a, b) == IF a < b THEN a ELSE b

\* s[:n] on a string
Slice(s, n) == SubSeq(s, 1, Min(Len(s), n))

\* class CodePayload(BaseModel): code: str; model: str = "gemini"
CodePayload(code, modelField) ==
  [code |-> code,
   model |-> IF modelField = Absent THEN "gemini" ELSE modelField]

(* ------------------------------ startup -------------------------------- *)
\* variant: the load of the scanner is switched on
ScannerLoadEnabled_on == TRUE

\* `if False and pipeline is not None`
ScannerLoadEnabled == FALSE

\* the scanner block of lifespan: the handle it leaves in security_scanner
InitScanner(pipe, threw) ==
  IF ScannerLoadEnabled /\ pipe # None
  THEN [client |-> IF threw THEN None ELSE "scanner_h", raised |-> FALSE,
        tried |-> TRUE]
  ELSE [client |-> None, raised |-> FALSE, tried |-> FALSE]

\* variant: the credential is not looked at
InitClient_ignoresKey(sdk, key, threw, h) ==
  IF sdk # None
  THEN [client |-> IF threw THEN None ELSE h, raised |-> FALSE, tried |-> TRUE]
  ELSE [client |-> None, raised |-> FALSE, tried |-> FALSE]

\* one provider block of lifespan: `if sdk is not None and key:` try
\* construct, `except Exception` leaves None
InitClient(sdk, key, threw, h) ==
  IF sdk # None /\ Truthy(key)
  THEN [client |-> IF threw THEN None ELSE h, raised |-> FALSE, tried |-> TRUE]
  ELSE [client |-> None, raised |-> FALSE, tried |-> FALSE]

\* no request has been sent and the event loop is idle
NoRequests ==
  /\ payload = [r \in Requests |-> NoPayload]
  /\ stage = [r \in Requests |-> "none"]
  /\ status = [r \in Requests |-> Absent]
  /\ prompt = [r \in Requests |-> <<>>]
  /\ called = [r \in Requests |-> {}]
  /\ scanned = [r \in Requests |-> <<>>]
  /\ completion = [r \in Requests |-> Absent]
  /\ response = [r \in Requests |-> NoResponse]
  /\ loop = NoLoop

\* the module as imported: the handles are None, lifespan has not run
Init ==
  /\ genai \in {None, "module"}
  /\ Groq \in {None, "module"}
  /\ pipeline \in {None, "module"}
  /\ GEMINI_API_KEY \in Keys
  /\ GROQ_API_KEY \in Keys
  /\ security_scanner = None
  /\ gemini_client = None
  /\ groq_client = None
  /\ lifespan_pc = "start"
  /\ ctor_threw = [scanner |-> FALSE, gemini |-> FALSE, groq |-> FALSE]
  /\ NoRequests

\* In the three startup steps `threw` is what the constructor does if it is
\* called; a constructor that is not called cannot have thrown.
LifespanScanner ==
  /\ lifespan_pc = "start"
  /\ \E threw \in BOOLEAN :
       LET res == InitScanner(pipeline, threw) IN
       /\ (~res.tried => ~threw)
       /\ security_scanner' = res.client
       /\ ctor_threw' = [ctor_threw EXCEPT !.scanner = threw]
       /\ lifespan_pc' = IF res.raised THEN "raised" ELSE "scanner_done"
  /\ UNCHANGED <<envVars, gemini_client, groq_client, reqVars>>

LifespanGemini ==
  /\ lifespan_pc = "scanner_done"
  /\ \E threw \in BOOLEAN :
       LET res == InitClient(genai, GEMINI_API_KEY, threw, "gemini_h") IN
       /\ (~res.tried => ~threw)
       /\ gemini_client' = res.client
       /\ ctor_threw' = [ctor_threw EXCEPT !.gemini = threw]
       /\ lifespan_pc' = IF res.raised THEN "raised" ELSE "gemini_done"
  /\ UNCHANGED <<envVars, security_scanner, groq_client, reqVars>>

LifespanGroq ==
  /\ lifespan_pc = "gemini_done"
  /\ \E threw \in BOOLEAN :
       LET res == InitClient(Groq, GROQ_API_KEY, threw, "groq_h") IN
       /\ (~res.tried => ~threw)
       /\ groq_client' = res.client
       /\ ctor_threw' = [ctor_threw EXCEPT !.groq = threw]
       /\ lifespan_pc' = IF res.raised THEN "raised" ELSE "yielded"
  /\ UNCHANGED <<envVars, security_scanner, gemini_client, reqVars>>

(* --------------------------- analyze_code ------------------------------ *)
\* variant: the two verdicts are exchanged
ScanStatus_swapped(scanner, code, out) ==
  IF scanner # None /\ code # ""
  THEN IF out = "throws"
       THEN "unknown"
       ELSE LET raw_label == IF out = "no_label" THEN "" ELSE out
            IN  IF raw_label = "LABEL_1" THEN "secure" ELSE "insecure"
  ELSE "unknown"

\* Step A: the status the scan leaves.  `out` is what the scanner does when
\* it is invoked: a result whose first entry carries the label, one whose
\* first entry has no 'label' key, or an exception.
ScanStatus(scanner, code, out) ==
  IF scanner # None /\ code # ""
  THEN IF out = "throws"
       THEN "unknown"
       ELSE LET raw_label == IF out = "no_label" THEN "" ELSE out
            IN  IF raw_label = "LABEL_1" THEN "insecure" ELSE "secure"
  ELSE "unknown"

\* Step A: is the scanner invoked at all
ScanInvoked(scanner, code) == scanner # None /\ code # ""

\* Step B: the f-string
BuildPrompt(st, code) ==
  <<"Review this code which the scanner marked as ", st,
    ". Provide a brief bug report and then the fully optimized version.",
    "CODE:", code>>

\* variant: only "gemini" selects Gemini
Route_unknownToGroq(model) == IF model = "gemini" THEN "gemini" ELSE "groq"

\* Step C: `if payload.model == "groq": ... else: ...`
Route(model) == IF model = "groq" THEN "groq" ELSE "gemini"

SelectedClient(provider) ==
  IF provider = "groq" THEN groq_client ELSE gemini_client

\* the two `raise HTTPException(status_code=503, detail=...)`
Unavailable(provider) ==
  [cls |-> "HTTPException", status_code |-> StatusUnavailable,
   detail |-> IF provider = "groq" THEN "Groq client not available"
                                   ELSE "Gemini client not available"]

\* an exception of the provider SDK (or of reading its response)
SdkError(msg) == [cls |-> "Exception", status_code |-> 0, detail |-> msg]

\* ai_text = chat_completion.choices[0].message.content
GroqText(out) ==
  IF out = "text" THEN [exc |-> NoExc, val |-> "OK"]
  ELSE [exc |-> SdkError("no attribute 'content'"), val |-> Absent]

\* ai_text = getattr(response, 'text', str(response))
GeminiText(out) ==
  IF out = "text" THEN [exc |-> NoExc, val |-> "OK"]
  ELSE [exc |-> NoExc, val |-> "str(response)"]

ExtractText(provider, out) ==
  IF provider = "groq" THEN GroqText(out) ELSE GeminiText(out)

\* return {"security_score": status, "analysis": ai_text}
Success(st, ai_text) ==
  [http |-> StatusOK, security_score |-> st, analysis |-> ai_text,
   detail |-> Absent]

\* variant: without the `except HTTPException: raise` clause
ExceptClauses_noReraise(exc) ==
  [http |-> StatusOK, security_score |-> "error",
   analysis |-> "Backend Error: " \o exc.detail, detail |-> Absent]

\* variant: without the `except Exception` clause; the framework answers an
\* escaped exception with status 500
ExceptClauses_noCatchAll(exc) ==
  IF exc.cls = "HTTPException"
  THEN [http |-> exc.status_code, security_score |-> Absent,
        analysis |-> Absent, detail |-> exc.detail]
  ELSE [http |-> 500, security_score |-> Absent, analysis |-> Absent,
        detail |-> "Internal Server Error"]

\* `except HTTPException: raise` / `except Exception as e: return {...}`;
\* a raised HTTPException is answered by the framework with its status and
\* a body holding its detail
ExceptClauses(exc) ==
  IF exc.cls = "HTTPException"
  THEN [http |-> exc.status_code, security_score |-> Absent,
        analysis |-> Absent, detail |-> exc.detail]
  ELSE [http |-> StatusOK, security_score |-> "error",
        analysis |-> "Backend Error: " \o exc.detail, detail |-> Absent]

\* the stage a response ends the request in
Outcome(resp) ==
  IF resp.http # StatusOK THEN "service_unavailable"
  ELSE IF resp.security_score = "error" THEN "internal_error"
  ELSE "responded"

\* a client posts a body to /analyze; the server accepts traffic only
\* after lifespan has yielded
Send(r) ==
  /\ lifespan_pc = "yielded"
  /\ stage[r] = "none"
  /\ stage' = [stage EXCEPT ![r] = "sent"]
  /\ UNCHANGED <<envVars, handles, startVars, payload, status, prompt,
                 called, scanned, completion, response, loop>>

\* the event loop, when it is free, takes a waiting request: the body is
\* validated into a CodePayload and the handler coroutine starts
Enter(r) ==
  /\ stage[r] = "sent"
  /\ loop = NoLoop
  /\ loop' = r
  /\ \E code \in Codes, modelField \in ModelFields :
       payload' = [payload EXCEPT ![r] = CodePayload(code, modelField)]
  /\ stage' = [stage EXCEPT ![r] = "received"]
  /\ UNCHANGED <<envVars, handles, startVars, status, prompt, called,
                 scanned, completion, response>>

\* variant: the provider is dispatched to before scoring and prompting
StepA_skipsToPrompted(r) ==
  /\ stage[r] = "received"
  /\ loop = r
  /\ stage' = [stage EXCEPT ![r] = "prompted"]
  /\ UNCHANGED <<envVars, handles, startVars, payload, status, prompt,
                 called, scanned, completion, response, loop>>

\* `out` is what the scanner does if it is invoked; when it is not, one
\* value stands for all
StepA(r) ==
  /\ stage[r] = "received"
  /\ loop = r
  /\ \E out \in ScorerOutcomes :
       /\ (~ScanInvoked(security_scanner, payload[r].code) => out = "throws")
       /\ status' = [status EXCEPT ![r] =
                       ScanStatus(security_scanner, payload[r].code, out)]
       /\ scanned' = [scanned EXCEPT ![r] =
                        IF ScanInvoked(security_scanner, payload[r].code)
                        THEN <<Slice(payload[r].code, ScanLimit), out>>
                        ELSE <<>>]
  /\ stage' = [stage EXCEPT ![r] = "scored"]
  /\ UNCHANGED <<envVars, handles, startVars, payload, prompt, called,
                 completion, response, loop>>

StepB(r) ==
  /\ stage[r] = "scored"
  /\ loop = r
  /\ prompt' = [prompt EXCEPT ![r] = BuildPrompt(status[r], payload[r].code)]
  /\ stage' = [stage EXCEPT ![r] = "prompted"]
  /\ UNCHANGED <<envVars, handles, startVars, payload, status, called,
                 scanned, completion, response, loop>>

\* Step C up to the provider call: the selected handle is None and the
\* HTTPException leaves the handler, or the completion call is made
StepC(r) ==
  /\ stage[r] = "prompted"
  /\ loop = r
  /\ LET provider == Route(payload[r].model) IN
       IF SelectedClient(provider) = None
       THEN LET resp == ExceptClauses(Unavailable(provider)) IN
            /\ response' = [response EXCEPT ![r] = resp]
            /\ stage' = [stage EXCEPT ![r] = Outcome(resp)]
            /\ loop' = NoLoop
            /\ UNCHANGED called
       ELSE /\ called' = [called EXCEPT ![r] = called[r] \cup {provider}]
            /\ stage' = [stage EXCEPT ![r] = "dispatched"]
            /\ UNCHANGED <<response, loop>>
  /\ UNCHANGED <<envVars, handles, startVars, payload, status, prompt,
                 scanned, completion>>

\* variant: a failed completion call makes the handler drop the client
Completion_dropsClient(r) ==
  /\ stage[r] = "dispatched"
  /\ loop = r
  /\ \E out \in ProviderOutcomes :
       LET provider == Route(payload[r].model)
           res  == IF out = "throws"
                   THEN [exc |-> SdkError("boom"), val |-> Absent]
                   ELSE ExtractText(provider, out)
           resp == IF res.exc = NoExc THEN Success(status[r], res.val)
                   ELSE ExceptClauses(res.exc)
       IN  /\ completion' = [completion EXCEPT ![r] = out]
           /\ response' = [response EXCEPT ![r] = resp]
           /\ stage' = [stage EXCEPT ![r] = Outcome(resp)]
           /\ groq_client' = IF out = "throws" /\ provider = "groq"
                             THEN None ELSE groq_client
           /\ gemini_client' = IF out = "throws" /\ provider = "gemini"
                               THEN None ELSE gemini_client
  /\ loop' = NoLoop
  /\ UNCHANGED <<envVars, security_scanner, startVars, payload, status,
                 prompt, called, scanned>>

\* the completion call returns or throws; the handler runs to its end
Completion(r) ==
  /\ stage[r] = "dispatched"
  /\ loop = r
  /\ \E out \in ProviderOutcomes :
       LET provider == Route(payload[r].model)
           res  == IF out = "throws"
                   THEN [exc |-> SdkError("boom"), val |-> Absent]
                   ELSE ExtractText(provider, out)
           resp == IF res.exc = NoExc THEN Success(status[r], res.val)
                   ELSE ExceptClauses(res.exc)
       IN  /\ completion' = [completion EXCEPT ![r] = out]
           /\ response' = [response EXCEPT ![r] = resp]
           /\ stage' = [stage EXCEPT ![r] = Outcome(resp)]
  /\ loop' = NoLoop
  /\ UNCHANGED <<envVars, handles, startVars, payload, status, prompt,
                 called, scanned>>

Lifespan == LifespanScanner \/ LifespanGemini \/ LifespanGroq

Handler ==
  \E r \in Requests :
    Send(r) \/ Enter(r) \/ StepA(r) \/ StepB(r) \/ StepC(r) \/ Completion(r)

Next == Lifespan \/ Handler

Spec == Init /\ [][Next]_vars

\* the event loop runs every ready handler step, and a completion call
\* that returns or throws lets its handler go on
Fairness ==
  \A r \in Requests :
    /\ WF_vars(Enter(r))
    /\ WF_vars(StepA(r))
    /\ WF_vars(StepB(r))
    /\ WF_vars(StepC(r))
    /\ WF_vars(Completion(r))


\* analyze_code driven directly, with the three module globals substituted
\* by stubs or left None
HarnessInit ==
  /\ genai = "module"
  /\ Groq = "module"
  /\ pipeline = "module"
  /\ GEMINI_API_KEY = "k"
  /\ GROQ_API_KEY = "k"
  /\ security_scanner \in {None, "scanner_h"}
  /\ gemini_client \in {None, "gemini_h"}
  /\ groq_client \in {None, "groq_h"}
  /\ lifespan_pc = "yielded"
  /\ ctor_threw = [scanner |-> FALSE, gemini |-> gemini_client = None,
                   groq |-> groq_client = None]
  /\ NoRequests

HarnessSpec == HarnessInit /\ [][Handler]_vars

FairHarnessSpec == HarnessSpec /\ Fairness

(* ------------------------------ claims --------------------------------- *)
Terminal(r) ==
  stage[r] \in {"responded", "service_unavailable", "internal_error"}

\* the handle of the provider that payload.model selects is None
SelectedAbsent(r) ==
  \/ payload[r].model = "groq" /\ groq_client = None
  \/ payload[r].model # "groq" /\ gemini_client = None

\* C8: a request goes through received, scored, prompted, dispatched and
\* ends in exactly one of responded, service_unavailable (only with the
\* selected handle None, status 503) and internal_error (status 200, score
\* "error"); the provider is called only after the score and the prompt
\* exist; every terminal outcome has a response body; and, the provider call
\* returning or throwing, a received request eventually ends.
StageOrder ==
  {<<"none", "sent">>, <<"sent", "received">>, <<"received", "scored">>,
   <<"scored", "prompted">>, <<"prompted", "dispatched">>,
   <<"prompted", "service_unavailable">>, <<"dispatched", "responded">>,
   <<"dispatched", "internal_error">>}

HasBody(resp) ==
  \/ resp.detail \notin {Absent, ""}
  \/ resp.security_score # Absent /\ resp.analysis # Absent

C8_StageShape ==
  \A r \in Requests :
    /\ called[r] # {} => status[r] # Absent /\ prompt[r] # <<>>
    /\ called[r] # {} => stage[r] \in {"dispatched", "responded",
                                       "internal_error"}
    /\ Terminal(r) => HasBody(response[r])
    /\ stage[r] = "service_unavailable" =>
         SelectedAbsent(r) /\ response[r].http = StatusUnavailable
    /\ stage[r] = "internal_error" =>
         /\ response[r].http = StatusOK
         /\ response[r].security_score = "error"
    /\ stage[r] = "responded" =>
         /\ response[r].http = StatusOK
         /\ response[r].security_score = status[r]
         /\ response[r].analysis # Absent

C8_RequestStateMachine ==
  /\ [][\A r \in Requests :
          stage'[r] # stage[r] => <<stage[r], stage'[r]>> \in StageOrder]_vars
  /\ []C8_StageShape
  /\ \A r \in Requests : (stage[r] = "received") ~> Terminal(r)

\* two requests that went through every stage, one ending in responded and
\* one in internal_error
C8_Witness ==
  \E r1, r2 \in Requests :
    /\ stage[r1] = "internal_error" /\ called[r1] # {}
    /\ stage[r2] = "responded" /\ called[r2] # {}

\* C1: the provider that receives the completion call depends on
\* payload.model alone: "groq" is only ever sent to Groq, every other value
\* only ever to Gemini, whatever handles are present.
C1_RouteByModelOnly ==
  \A r \in Requests :
    /\ payload[r].model = "groq" => called[r] \subseteq {"groq"}
    /\ payload[r].model # "groq" => called[r] \subseteq {"gemini"}

C1_Witness ==
  \E r1, r2 \in Requests :
    /\ payload[r1].model = "groq" /\ called[r1] = {"groq"}
    /\ payload[r2].model = "llama" /\ called[r2] = {"gemini"}

\* C2: a request whose selected handle is None ends with status 503, the
\* HTTPException not turned into the error envelope, with no completion
\* call to either provider and no analysis text.
C2_AbsentHandleIs503 ==
  \A r \in Requests :
    (SelectedAbsent(r) /\ stage[r] \notin {"none", "sent", "received",
                                           "scored", "prompted"}) =>
      /\ stage[r] = "service_unavailable"
      /\ response[r].http = StatusUnavailable
      /\ response[r].security_score = Absent
      /\ response[r].analysis = Absent
      /\ called[r] = {}
      /\ completion[r] = Absent

C2_Witness ==
  \E r \in Requests :
    /\ payload[r] = [code |-> "x=1", model |-> "groq"]
    /\ groq_client = None /\ gemini_client # None
    /\ stage[r] = "service_unavailable"

\* C3: when the selected handle is present and its completion call throws,
\* the response has status 200 and the body {security_score: "error",
\* analysis: <non-empty string>}.
C3_ThrowIsErrorEnvelope ==
  \A r \in Requests :
    completion[r] = "throws" =>
      /\ stage[r] = "internal_error"
      /\ response[r].http = StatusOK
      /\ response[r].security_score = "error"
      /\ response[r].analysis \notin {Absent, ""}
      /\ response[r].detail = Absent

C3_Witness ==
  \E r1, r2 \in Requests :
    /\ completion[r1] = "throws" /\ called[r1] = {"groq"}
    /\ completion[r2] = "throws" /\ called[r2] = {"gemini"}

\* C4: with the completion text obtained, security_score is "unknown" when
\* the scanner is None, the code is empty or the scanner throws, "insecure"
\* when the scanner returns LABEL_1 and "secure" for any other label; a
\* scanner failure neither changes the HTTP status nor yields "error".
ScanOut(r) == IF scanned[r] = <<>> THEN "not_invoked" ELSE scanned[r][2]

C4_Expected(r) ==
  IF security_scanner = None \/ payload[r].code = "" \/ ScanOut(r) = "throws"
  THEN "unknown"
  ELSE IF ScanOut(r) = "LABEL_1" THEN "insecure" ELSE "secure"

C4_ScoreMapping ==
  \A r \in Requests :
    /\ completion[r] = "text" =>
         /\ response[r].http = StatusOK
         /\ response[r].security_score = C4_Expected(r)
    /\ (ScanOut(r) = "throws" /\ Terminal(r)) =>
         /\ response[r].http = StatusOK <=> ~SelectedAbsent(r)
         /\ response[r].security_score = "error" => completion[r] # "text"

C4_Witness ==
  \E r1, r2 \in Requests :
    /\ ScanOut(r1) = "LABEL_1" /\ response[r1].security_score = "insecure"
    /\ ScanOut(r2) = "throws" /\ response[r2].security_score = "unknown"
    /\ response[r2].http = StatusOK

\* C5: for either provider, a completion response that lacks the text field
\* does not fail the request: the analysis is the string form of the whole
\* response and security_score is the scoring result, not "error".
C5_TextFallbackBothProviders ==
  \A r \in Requests :
    completion[r] = "no_text_field" =>
      /\ response[r].http = StatusOK
      /\ response[r].analysis = "str(response)"
      /\ response[r].security_score = status[r]
      /\ response[r].security_score # "error"

\* C6: lifespan never raises before its yield, and after it each provider
\* handle is present exactly when its SDK was imported, its credential is
\* non-empty and its constructor did not throw, each provider on its own.
C6_StartupOutcome ==
  /\ lifespan_pc # "raised"
  /\ lifespan_pc \in {"gemini_done", "yielded"} =>
       (gemini_client # None <=>
          /\ genai # None
          /\ GEMINI_API_KEY \notin {None, ""}
          /\ ~ctor_threw.gemini)
  /\ lifespan_pc = "yielded" =>
       (groq_client # None <=>
          /\ Groq # None
          /\ GROQ_API_KEY \notin {None, ""}
          /\ ~ctor_threw.groq)

C6_Witness ==
  /\ lifespan_pc = "yielded"
  /\ gemini_client # None
  /\ Groq # None /\ GROQ_API_KEY = "k" /\ ctor_threw.groq
  /\ groq_client = None

\* C7: once lifespan has yielded, no step of any request changes
\* security_scanner, gemini_client or groq_client; so every request for a
\* provider whose handle is None ends with 503.
C7_HandlesFrozen ==
  /\ [][lifespan_pc = "yielded" => handles' = handles]_vars
  /\ [](\A r \in Requests :
          (Terminal(r) /\ SelectedAbsent(r)) =>
             response[r].http = StatusUnavailable)

C7_Witness ==
  \E r1, r2 \in Requests :
    /\ r1 # r2
    /\ payload[r1].model = payload[r2].model
    /\ stage[r1] = "service_unavailable"
    /\ stage[r2] = "service_unavailable"
    /\ \/ gemini_client # None
       \/ groq_client # None

\* C9: while one request is inside its provider completion call, another
\* request that has arrived can be taken up and progress without waiting.
C9_ConcurrentProgress ==
  \A r1, r2 \in Requests :
    (r1 # r2 /\ stage[r1] = "dispatched" /\ stage[r2] = "sent") =>
      ENABLED Enter(r2)

\* C10: the scanner load is skipped whether or not transformers is there,
\* so security_scanner is None in every state, the scanner is never invoked
\* and no response carries the score "secure" or "insecure": a body with a
\* security_score has "unknown" or "error" (the 503 body has only a detail).
C10_ScannerAlwaysAbsent ==
  /\ security_scanner = None
  /\ \A r \in Requests :
       /\ scanned[r] = <<>>
       /\ status[r] \in {Absent, "unknown"}
       /\ response[r].security_score \in {Absent, "unknown", "error"}
       /\ (Terminal(r) /\ response[r].http = StatusOK) =>
            response[r].security_score \in {"unknown", "error"}

C10_Witness ==
  /\ pipeline # None
  /\ \E r \in Requests :
       /\ payload[r].code = "x=1"
       /\ stage[r] = "responded"
       /\ response[r].security_score = "unknown"
====
